---- MODULE Spec2Model ----
(***************************************************************************)
(* Model of the query/DDL construction and execution layer of database.py  *)
(* and of the dialog handlers of dialogs.py that call it.                  *)
(*                                                                         *)
(* SQL text is a sequence of tokens.  A token is a record [k, s]: k says   *)
(* how the piece came into the text ("kw": literal text of the code,       *)
(* "id": sql.Identifier, "raw": caller text put in verbatim, "ph": a       *)
(* placeholder %s), s is its text.  Messages are sequences of words.       *)
(* Cyrillic message texts of the source are written in English.            *)
(***************************************************************************)
EXTENDS Integers, Sequences, FiniteSets, TLC

VARIABLES
    db,        \* the database: sequence of committed effects
    conn,      \* the connection of the running handler
    op,        \* the operation the running handler performs, "none" if idle
    pc,        \* position inside the operation
    actions,   \* alter_table: the batch handed in
    commands,  \* alter_table: the statements built
    cursor,    \* alter_table: index of the next statement to execute
    request,   \* the other operations: their input
    trace,     \* events on the connection during this invocation
    outcome,   \* what the operation returned or raised
    dbBefore,  \* db when the operation was called
    seed,      \* the hash seed of this run of the interpreter
    calls,     \* operations finished so far
    params,    \* build_select_sql: its input
    built,     \* build_select_sql: its result
    previous,  \* the call before this one, if it was an introspection that returned
    observed   \* what another session last read while this alter_table call was under way

vars == <<db, conn, op, pc, actions, commands, cursor, request, trace,
          outcome, dbBefore, seed, calls, params, built, previous, observed>>

(***************************************************************************)
(* Bounds of the model.                                                    *)
(***************************************************************************)
MaxBatch == 2
MaxCalls == 2
MaxConds == 2
MaxList == 1
MaxChanges == 2
MaxWords == 3
MaxSpin == 7

(***************************************************************************)
(* Python values.                                                          *)
(***************************************************************************)
None == "<None>"

\* str(x) inside an f-string
Str(x) == IF x = None THEN "None" ELSE x

\* truth value of an Optional[str]
Truthy(x) == x # None /\ x # ""

RECURSIVE Flatten(_)
Flatten(ss) == IF ss = <<>> THEN <<>> ELSE Head(ss) \o Flatten(Tail(ss))

RECURSIVE SeqsUpTo(_, _)
SeqsUpTo(S, n) ==
    IF n = 0 THEN {<<>>}
    ELSE LET shorter == SeqsUpTo(S, n - 1)
         IN  shorter \cup {Append(s, x) : s \in shorter, x \in S}

(***************************************************************************)
(* Tokens of SQL text.                                                     *)
(***************************************************************************)
Kw(s) == [k |-> "kw", s |-> s]
Ph == [k |-> "ph", s |-> "%s"]

\* psycopg2.sql.Identifier(s): a quoted identifier; not a str -> TypeError
Identifier(s) ==
    IF s = None THEN [k |-> "TypeError", s |-> "SQL identifier parts must be strings"]
    ELSE [k |-> "id", s |-> s]

\* psycopg2.sql.SQL(s): s verbatim; not a str -> TypeError
SQL(s) ==
    IF s = None THEN [k |-> "TypeError", s |-> "SQL values must be strings"]
    ELSE [k |-> "raw", s |-> s]

\* the first index of a token that failed to construct, 0 if none
FirstBad(parts) ==
    IF \E i \in 1..Len(parts) : parts[i].k = "TypeError"
    THEN CHOOSE i \in 1..Len(parts) :
            /\ parts[i].k = "TypeError"
            /\ \A j \in 1..(i - 1) : parts[j].k # "TypeError"
    ELSE 0

\* sql.SQL(template).format(...): arguments are evaluated left to right
Format(parts) ==
    LET b == FirstBad(parts)
    IN  IF b = 0 THEN [ok |-> TRUE, cmd |-> parts, exc |-> "", msg |-> <<>>]
        ELSE [ok |-> FALSE, cmd |-> <<>>, exc |-> "TypeError", msg |-> <<parts[b].s>>]

(***************************************************************************)
(* _humanize_pg_error                                                      *)
(***************************************************************************)
\* str.lower() on the words that occur in backend messages
Lower(w) ==
    CASE w = "UNIQUE" -> "unique"
      [] w = "Key" -> "key"
      [] w = "Syntax" -> "syntax"
      [] OTHER -> w

LowerMsg(m) == [i \in 1..Len(m) |-> Lower(m[i])]

\* the dict `mapping`, in insertion order
mapping == <<
    [k |-> <<"unique">>,                    v |-> "UNIQUE constraint violated."],
    [k |-> <<"not-null">>,                  v |-> "NOT NULL constraint violated."],
    [k |-> <<"foreign", "key">>,            v |-> "FOREIGN KEY constraint violated."],
    [k |-> <<"check", "constraint">>,       v |-> "CHECK constraint violated."],
    [k |-> <<"syntax">>,                    v |-> "SQL syntax error."],
    [k |-> <<"does", "not", "exist">>,      v |-> "Object not found (table/column/constraint)."],
    [k |-> <<"duplicate", "object">>,       v |-> "Object already exists."],
    [k |-> <<"invalid", "input", "syntax">>, v |-> "Invalid data format for the type."],
    [k |-> <<"cannot", "drop", "column">>,  v |-> "Cannot drop column: dependencies or constraints exist."] >>

\* k in m, for strings as word sequences
Contains(m, k) ==
    \E i \in 0..(Len(m) - Len(k)) : SubSeq(m, i + 1, i + Len(k)) = k

Matching(msg) == {i \in 1..Len(mapping) : Contains(LowerMsg(msg), mapping[i].k)}

humanize_pg_error(msg) ==
    IF Matching(msg) = {} THEN msg
    ELSE LET i == CHOOSE i \in Matching(msg) : \A j \in Matching(msg) : i <= j
         IN  <<mapping[i].v, "Details:">> \o msg

(***************************************************************************)
(* AlterAction and the statement builder of alter_table                    *)
(***************************************************************************)
AlterAction(kind, table) ==
    [kind |-> kind, table |-> table, column |-> None, new_name |-> None,
     data_type |-> None, check_expr |-> None, ref_table |-> None,
     ref_column |-> None, constraint_name |-> None, cascade |-> FALSE]

\* the seeds a run of the interpreter may draw for str hashing
Seeds == {0, 1}

\* hash(x): for a str it depends on the seed of the run
hash(x, sd) ==
    CASE x = None -> 544710
      [] x = "x > 0" /\ sd = 0 -> 0 - 20017
      [] x = "x > 0" /\ sd = 1 -> 10041
      [] x = "y > 0" /\ sd = 0 -> 4242
      [] x = "y > 0" /\ sd = 1 -> 42
      [] OTHER -> 1

abs(n) == IF n < 0 THEN 0 - n ELSE n

\* a.constraint_name or f"{a.table}_{a.column}_uniq"
UniqueName(a) ==
    IF Truthy(a.constraint_name) THEN a.constraint_name
    ELSE Str(a.table) \o "_" \o Str(a.column) \o "_uniq"

\* a.constraint_name or f"{a.table}_check_{abs(hash(a.check_expr))%9999}"
CheckName(a, sd) ==
    IF Truthy(a.constraint_name) THEN a.constraint_name
    ELSE Str(a.table) \o "_check_" \o ToString(abs(hash(a.check_expr, sd)) % 9999)

\* a.constraint_name or f"{a.table}_{a.column}_fk"
ForeignKeyName(a) ==
    IF Truthy(a.constraint_name) THEN a.constraint_name
    ELSE Str(a.table) \o "_" \o Str(a.column) \o "_fk"

\* one pass of the loop body of alter_table: the statement of one action
BuildCommand(a, sd) ==
    LET t == Identifier(a.table)
        alter == Kw("ALTER TABLE")
    IN  CASE a.kind = "add_column" ->
               Format(<<alter, t, Kw("ADD COLUMN"), Identifier(a.column), SQL(a.data_type)>>)
          [] a.kind = "drop_column" ->
               Format(<<alter, t, Kw("DROP COLUMN"), Identifier(a.column),
                        IF a.cascade THEN Kw("CASCADE") ELSE Kw("")>>)
          [] a.kind = "rename_column" ->
               Format(<<alter, t, Kw("RENAME COLUMN"), Identifier(a.column),
                        Kw("TO"), Identifier(a.new_name)>>)
          [] a.kind = "rename_table" ->
               Format(<<alter, t, Kw("RENAME TO"), Identifier(a.new_name)>>)
          [] a.kind = "alter_type" ->
               Format(<<alter, t, Kw("ALTER COLUMN"), Identifier(a.column),
                        Kw("TYPE"), SQL(a.data_type)>>)
          [] a.kind = "set_not_null" ->
               Format(<<alter, t, Kw("ALTER COLUMN"), Identifier(a.column),
                        Kw("SET NOT NULL")>>)
          [] a.kind = "drop_not_null" ->
               Format(<<alter, t, Kw("ALTER COLUMN"), Identifier(a.column),
                        Kw("DROP NOT NULL")>>)
          [] a.kind = "add_unique" ->
               Format(<<alter, t, Kw("ADD CONSTRAINT"), Identifier(UniqueName(a)),
                        Kw("UNIQUE ("), Identifier(a.column), Kw(")")>>)
          [] a.kind = "add_check" ->
               Format(<<alter, t, Kw("ADD CONSTRAINT"), Identifier(CheckName(a, sd)),
                        Kw("CHECK ("), SQL(a.check_expr), Kw(")")>>)
          [] a.kind = "add_foreign_key" ->
               Format(<<alter, t, Kw("ADD CONSTRAINT"), Identifier(ForeignKeyName(a)),
                        Kw("FOREIGN KEY ("), Identifier(a.column), Kw(") REFERENCES"),
                        Identifier(a.ref_table), Kw("("), Identifier(a.ref_column), Kw(")")>>)
          [] a.kind = "drop_constraint" ->
               Format(<<alter, t, Kw("DROP CONSTRAINT"), Identifier(a.constraint_name)>>)
          [] OTHER ->
               [ok |-> FALSE, cmd |-> <<>>, exc |-> "DBError",
                msg |-> <<"Unknown action kind:", a.kind>>]

\* a build loop that skips the actions it cannot build
BuildCommandsSkipBad(as, sd) ==
    LET good == SelectSeq(as, LAMBDA a : BuildCommand(a, sd).ok)
    IN  [ok |-> TRUE, commands |-> [i \in 1..Len(good) |-> BuildCommand(good[i], sd).cmd],
         exc |-> "", msg |-> <<>>]

\* a build loop that prepends instead of appending
BuildCommandsReversed(as, sd) ==
    [ok |-> \A i \in 1..Len(as) : BuildCommand(as[i], sd).ok,
     commands |-> [i \in 1..Len(as) |-> BuildCommand(as[Len(as) + 1 - i], sd).cmd],
     exc |-> "TypeError", msg |-> <<>>]

\* the loop `for a in actions` of alter_table: all statements, or the first
\* exception raised while building
BuildCommands(as, sd) ==
    LET res == [i \in 1..Len(as) |-> BuildCommand(as[i], sd)]
        bad == {i \in 1..Len(as) : ~res[i].ok}
    IN  IF bad = {}
        THEN [ok |-> TRUE, commands |-> [i \in 1..Len(as) |-> res[i].cmd],
              exc |-> "", msg |-> <<>>]
        ELSE LET i == CHOOSE i \in bad : \A j \in bad : i <= j
             IN  [ok |-> FALSE, commands |-> <<>>, exc |-> res[i].exc, msg |-> res[i].msg]

(***************************************************************************)
(* SelectParams and build_select_sql                                       *)
(*                                                                         *)
(* A bound value is a record [t, v]: PyInt(n) is the int n, PyNone is None.  *)
(* A dict is a function on its keys, so a key may be missing.              *)
(***************************************************************************)
PyInt(n) == [t |-> "int", v |-> n]
PyNone == [t |-> "None", v |-> 0]

\* d.get(key, default)
Get(d, key, default) == IF key \in DOMAIN d THEN d[key] ELSE default

\* s.strip().upper() on the operator and join-type texts
StripUpper(s) ==
    CASE s = " like " -> "LIKE"
      [] s = "ilike" -> "ILIKE"
      [] s = "left" -> "LEFT"
      [] OTHER -> s

\* sep.join(items): items are token sequences
RECURSIVE Join(_, _)
Join(items, sep) ==
    IF items = <<>> THEN <<>>
    ELSE IF Len(items) = 1 THEN items[1]
    ELSE items[1] \o <<sep>> \o Join(Tail(items), sep)

\* caller text put into the statement verbatim
Text(s) == [k |-> "raw", s |-> s]

Texts(ss) == [i \in 1..Len(ss) |-> <<Text(ss[i])>>]

\* `if p.limit:` / `if p.offset:`
IsSetTruthy(v) == v # PyNone /\ v.v # 0

\* `if p.limit is not None` / `if p.offset is not None`
IsSet(v) == v # PyNone

\* lines 240-246: SELECT <columns|*> FROM <tables>
SelectFromPart(p) ==
    <<Kw("SELECT")>>
    \o (IF p.columns # <<>> THEN Join(Texts(p.columns), Kw(",")) ELSE <<Kw("*")>>)
    \o <<Kw("FROM")>> \o Join(Texts(p.tables), Kw(","))

\* lines 249-251: one JOIN per element of p.joins
JoinPart(p) ==
    Flatten([i \in 1..Len(p.joins) |->
        <<Text(StripUpper(Get(p.joins[i], "type", "INNER"))), Kw("JOIN"),
          Text(p.joins[i].table), Kw("ON"), Text(p.joins[i].on)>>])

\* a WHERE clause emitted also for an empty list
WherePartAlways(p) ==
    <<Kw("WHERE")>> \o
    Join([i \in 1..Len(p.where) |->
           <<Text(p.where[i].col),
             Text(StripUpper(Get(p.where[i], "op", "="))), Ph>>], Kw("AND"))

\* lines 255-265: both branches of the operator test emit the same text
WherePart(p) ==
    IF p.where # <<>>
    THEN <<Kw("WHERE")>> \o
         Join([i \in 1..Len(p.where) |->
                <<Text(p.where[i].col),
                  Text(StripUpper(Get(p.where[i], "op", "="))), Ph>>], Kw("AND"))
    ELSE <<>>

\* the where values collected back to front
WhereArgsReversed(p) ==
    [i \in 1..Len(p.where) |-> Get(p.where[Len(p.where) + 1 - i], "val", PyNone)]

WhereArgs(p) == [i \in 1..Len(p.where) |-> Get(p.where[i], "val", PyNone)]

\* lines 268-269
GroupByPart(p) ==
    IF p.group_by # <<>>
    THEN <<Kw("GROUP BY")>> \o Join(Texts(p.group_by), Kw(","))
    ELSE <<>>

\* lines 272-277
HavingPart(p) ==
    IF p.having # <<>>
    THEN <<Kw("HAVING")>> \o
         Join([i \in 1..Len(p.having) |->
                <<Text(p.having[i].col), Text(p.having[i].op), Ph>>], Kw("AND"))
    ELSE <<>>

HavingArgs(p) == [i \in 1..Len(p.having) |-> p.having[i].val]

\* lines 280-282
OrderByPart(p) ==
    IF p.order_by # <<>>
    THEN <<Kw("ORDER BY")>> \o
         Join([i \in 1..Len(p.order_by) |->
                <<Text(p.order_by[i][1]), Text(p.order_by[i][2])>>], Kw(","))
    ELSE <<>>

\* a LIMIT clause that writes the number into the text
LimitPartInline(p) ==
    IF IsSet(p.limit) THEN <<Kw("LIMIT"), Text(ToString(p.limit.v))>> ELSE <<>>

\* lines 285-287
LimitPart(p) == IF IsSet(p.limit) THEN <<Kw("LIMIT"), Ph>> ELSE <<>>
LimitArgs(p) == IF IsSet(p.limit) THEN <<p.limit>> ELSE <<>>

\* lines 288-290
OffsetPart(p) == IF IsSet(p.offset) THEN <<Kw("OFFSET"), Ph>> ELSE <<>>
OffsetArgs(p) == IF IsSet(p.offset) THEN <<p.offset>> ELSE <<>>

build_select_sql(p) ==
    [text |-> SelectFromPart(p) \o JoinPart(p) \o WherePart(p) \o GroupByPart(p)
              \o HavingPart(p) \o OrderByPart(p) \o LimitPart(p) \o OffsetPart(p),
     args |-> WhereArgs(p) \o HavingArgs(p) \o LimitArgs(p) \o OffsetArgs(p)]

(***************************************************************************)
(* The database and the connection.                                        *)
(*                                                                         *)
(* The database is the sequence of effects committed so far.  A connection *)
(* (psycopg2, autocommit off) opens a transaction at its first execute and *)
(* collects the effects of its statements in `pending` until commit makes  *)
(* them part of the database or rollback / close drops them.               *)
(***************************************************************************)
NoConn == [state |-> "none", txn |-> "idle", pending |-> <<>>]

\* get_connection(): a new connection, no transaction open
get_connection == [state |-> "open", txn |-> "idle", pending |-> <<>>]

Effect(stmt, args) == [stmt |-> stmt, args |-> args]

\* cur.execute succeeded
Executed(c, effects) == [c EXCEPT !.txn = "intrans", !.pending = c.pending \o effects]

\* cur.execute raised: the transaction is aborted
Aborted(c) == [c EXCEPT !.txn = "inerror"]

\* conn.rollback()
Rollback(c) == [c EXCEPT !.txn = "idle", !.pending = <<>>]

\* a rollback that keeps what the transaction did
RolledBackKeepsPending(d, c) == d \o c.pending

\* the database after conn.rollback(): nothing of the transaction is in it
RolledBack(d, c) == d

\* conn.commit(): what the transaction did becomes durable
Commit(c) == [c EXCEPT !.txn = "idle", !.pending = <<>>]
\* a commit that makes nothing durable
CommittedNothing(d, c) == d
Committed(d, c) == IF c.txn = "intrans" THEN d \o c.pending ELSE d

\* a close that leaves the connection as it is
CloseLeavesOpen(c) == c

\* conn.close(): an open transaction is dropped
Close(c) == [state |-> "closed", txn |-> "idle", pending |-> <<>>]

\* messages the backend may raise for a statement
RawMessages == {
    <<"violates", "UNIQUE", "constraint">>,
    <<"deadlock", "detected">> }

Event(e, stmt, ok) == [e |-> e, stmt |-> stmt, ok |-> ok]

NoOutcome == [kind |-> "none", exc |-> "", msg |-> <<>>, raw |-> <<>>, value |-> <<>>]
Returned(v) == [kind |-> "returned", exc |-> "", msg |-> <<>>, raw |-> <<>>, value |-> v]
\* raw: the backend message the exception stems from, <<>> if it has none
Raised(exc, msg, raw) == [kind |-> "raised", exc |-> exc, msg |-> msg, raw |-> raw, value |-> <<>>]

NotBuilt == [text |-> <<>>, args |-> <<>>]

(***************************************************************************)
(* Inputs of the executor                                                  *)
(***************************************************************************)
AddColumn == [AlterAction("add_column", "t") EXCEPT !.column = "a", !.data_type = "INTEGER"]
AddCheck == [AlterAction("add_check", "t") EXCEPT !.check_expr = "x > 0"]

\* the batches the schema editor hands to alter_table: well-formed actions,
\* an action without its column, an action of an unknown kind
ExecActions == {AddColumn, AddCheck,
                AlterAction("set_not_null", "t"), AlterAction("bogus", "t")}

ExecBatches == UNION {[1..n -> ExecActions] : n \in 1..MaxBatch}

(***************************************************************************)
(* Inputs of the query operations                                          *)
(***************************************************************************)
PyStr(x) == [t |-> "str", v |-> x]

SelectParams(tables) ==
    [tables |-> tables, columns |-> <<>>, joins |-> <<>>, where |-> <<>>,
     group_by |-> <<>>, having |-> <<>>, order_by |-> <<>>,
     limit |-> PyNone, offset |-> PyNone]

\* what the select builder dialog hands to execute_select
ExecSelects == {
    SelectParams(<<"t">>),
    [SelectParams(<<"t">>) EXCEPT
        !.joins = <<[table |-> "c", on |-> "t.id=c.t_id"]>>,
        !.where = <<[col |-> "x", op |-> "=", val |-> PyInt(5)]>>,
        !.limit = PyInt(10)] }

\* rows of a result set, lines of a plan
Rows == <<"row">>
Plan == <<"plan line">>

\* SearchDialog.on_search: f"SELECT * FROM {table} WHERE {col} {op} %s LIMIT 200"
SearchQuery(table, col, mode) ==
    <<Kw("SELECT * FROM"), Text(table), Kw("WHERE"), Text(col),
      IF mode \in {"LIKE", "ILIKE", "~", "~*", "!~", "!~*"} THEN Text(mode) ELSE Kw("LIKE"),
      Ph, Kw("LIMIT 200")>>

\* MainWindow.on_create_table: f'CREATE TABLE IF NOT EXISTS "{table}" (...)'
CreateTableQuery(table) ==
    <<Kw("CREATE TABLE IF NOT EXISTS"), [k |-> "dq", s |-> table],
      Kw("(id SERIAL PRIMARY KEY, name TEXT)")>>

\* a statement for safe_execute: returns says whether it has a result set
\* (cur.description), modifies whether it changes the database
RawStatement(handler, stmt, args, returns, modifies) ==
    [handler |-> handler, stmt |-> stmt, args |-> args, returns |-> returns,
     modifies |-> modifies]

\* the dict VALID_STRING_FUNCS: the expression of each function for a column
VALID_STRING_FUNCS(col) ==
    [UPPER |-> <<Kw("UPPER("), col, Kw(")")>>,
     LOWER |-> <<Kw("LOWER("), col, Kw(")")>>,
     TRIM |-> <<Kw("TRIM("), col, Kw(")")>>,
     SUBSTRING |-> <<Kw("SUBSTRING("), col, Kw("FROM"), Ph, Kw("FOR"), Ph, Kw(")")>>,
     LPAD |-> <<Kw("LPAD("), col, Kw(","), Ph, Kw(","), Ph, Kw(")")>>,
     RPAD |-> <<Kw("RPAD("), col, Kw(","), Ph, Kw(","), Ph, Kw(")")>>,
     CONCAT |-> <<Kw("CONCAT("), col, Kw(","), Ph, Kw(")")>>]

\* func.upper().strip() on the function names
UpperStrip(f) ==
    CASE f = " lpad " -> "LPAD"
      [] f = "upper" -> "UPPER"
      [] OTHER -> f

StringRequest(func, extra_args) ==
    [table |-> "t", column |-> "name", func |-> func, extra_args |-> extra_args]

\* what the string function dialog (or another caller) hands to apply_string_func
StringRequests == {
    StringRequest("upper", <<>>),
    StringRequest("SUBSTRING", <<PyInt(2), PyInt(3)>>),
    StringRequest("SUBSTRING", <<PyInt(2)>>),
    StringRequest(" lpad ", <<PyInt(5), PyStr("*")>>),
    StringRequest("REVERSE", <<>>) }

\* the number of placeholders in a statement text
Placeholders(text) == Cardinality({i \in 1..Len(text) : text[i] = Ph})

\* lines 337-341 of apply_string_func
StringQuery(r, f) ==
    <<Kw("SELECT"), Identifier(r.column), Kw(",")>>
    \o VALID_STRING_FUNCS(Identifier(r.column))[f]
    \o <<Kw("AS transformed"), Kw("FROM"), Identifier(r.table)>>

\* cur.execute(q, args) formats the arguments into q before anything is
\* sent: it raises when their number is not the number of placeholders
FormatError(text, args) ==
    IF Len(args) < Placeholders(text) THEN <<"tuple", "index", "out", "of", "range">>
    ELSE IF Len(args) > Placeholders(text) /\ args # <<>>
         THEN <<"not", "all", "arguments", "converted">>
    ELSE <<>>

\* InsertRowDialog._on_save: the INSERT statement
InsertQuery(table, cols) ==
    <<Kw("INSERT INTO"), [k |-> "dq", s |-> table], Kw("(")>>
    \o Join([i \in 1..Len(cols) |-> <<[k |-> "dq", s |-> cols[i]]>>], Kw(","))
    \o <<Kw(") VALUES (")>>
    \o Join([i \in 1..Len(cols) |-> <<Ph>>], Kw(","))
    \o <<Kw(")")>>

\* a field of the insert form: its editor, what the user entered, and the
\* NULL/DEFAULT check box
Field(name, editor, value, null) ==
    [name |-> name, editor |-> editor, value |-> value, null |-> null]

\* str.strip() on the texts a user enters
Strip(x) ==
    CASE x = " n " -> "n"
      [] OTHER -> x

\* _collect_values, lines 1108-1134: None for a checked NULL box, the
\* number of a spin box, the stripped text of a line edit, and None for
\* an empty text
FieldValue(f) ==
    IF f.null THEN PyNone
    ELSE IF f.editor = "QSpinBox" THEN f.value
    ELSE IF Strip(f.value.v) = "" THEN PyNone
    ELSE PyStr(Strip(f.value.v))

\* the forms a user may fill in
InsertForms == {
    <<Field("id", "QSpinBox", PyInt(1), FALSE), Field("name", "QLineEdit", PyStr("n"), FALSE)>>,
    <<Field("name", "QLineEdit", PyStr("n"), TRUE)>>,
    <<Field("name", "QLineEdit", PyStr(" n "), FALSE)>>,
    <<Field("name", "QLineEdit", PyStr(""), FALSE)>> }

\* _on_save, line 1160: cols, vals = self._collect_values()
InsertRequests ==
    {[table |-> "t", fields |-> form,
      cols |-> [i \in 1..Len(form) |-> form[i].name],
      vals |-> [i \in 1..Len(form) |-> FieldValue(form[i])]] : form \in InsertForms}

\* a column of a row the backend produced: its output name and its value
Column(name, value) == [name |-> name, value |-> value]

\* the rows of a table as the backend produces them: one for each committed
\* INSERT, its values in the order of the statement's columns
RowsOf(d, t) ==
    LET ins == SelectSeq(d, LAMBDA e : /\ e.stmt[1] = Kw("INSERT INTO")
                                       /\ e.stmt[2].s = t)
        cols(e) == SelectSeq(SubSeq(e.stmt, 3, Len(e.stmt)), LAMBDA x : x.k = "dq")
    IN  [i \in 1..Len(ins) |->
            [j \in 1..Len(ins[i].args) |-> Column(cols(ins[i])[j].s, ins[i].args[j])]]

\* the rows the backend produces for SELECT * FROM t JOIN c ON t.id=c.t_id:
\* the columns of t, then the columns of c; both tables have a column id
JoinRows ==
    << <<Column("id", PyInt(2)), Column("name", PyStr("b")),
         Column("id", PyInt(8)), Column("t_id", PyInt(2))>>,
       <<Column("id", PyInt(1)), Column("name", PyStr("a")),
         Column("id", PyInt(9)), Column("t_id", PyInt(1))>> >>

\* the result set of a query as the backend produced it: for
\* SELECT * FROM <table> the rows of the table, otherwise the rows of the join
ResultSet(d, p) ==
    IF Len(p.tables) = 1 /\ p = SelectParams(p.tables)
    THEN RowsOf(d, p.tables[1]) ELSE JoinRows

\* psycopg2's RealDictRow, the row type of RealDictCursor: a dict keyed by
\* column name.  A name has one entry, at the place of its first column and
\* with the value of its last column.
RealDictRow(row) ==
    LET first == SelectSeq([i \in 1..Len(row) |-> i],
                           LAMBDA i : \A j \in 1..(i - 1) : row[j].name # row[i].name)
        last(n) == CHOOSE i \in 1..Len(row) :
                       /\ row[i].name = n
                       /\ \A j \in (i + 1)..Len(row) : row[j].name # n
    IN  [k \in 1..Len(first) |->
            Column(row[first[k]].name, row[last(row[first[k]].name)].value)]

\* list(cur.fetchall()) of execute_select, line 302: the rows of the result
\* set in result order, each a RealDictRow
fetchall(d, p) ==
    LET rs == ResultSet(d, p)
    IN  [i \in 1..Len(rs) |-> RealDictRow(rs[i])]

(***************************************************************************)
(* A handler starts: it opens a connection of its own for one operation.   *)
(***************************************************************************)
\* the introspection functions
IntrospectionOps == {"list_tables", "get_columns", "get_constraints", "get_foreign_keys"}

\* no other session has read anything during this call
NoObservation == [o |-> "none", table |-> "", at |-> 0, value |-> <<>>]

NoPrevious == [op |-> "none", request |-> <<>>, db |-> <<>>, value |-> <<>>]

\* what is kept of the call that ends when the next one begins
Remember ==
    IF op \in IntrospectionOps /\ outcome.kind = "returned"
    THEN [op |-> op, request |-> request, db |-> dbBefore, value |-> outcome.value]
    ELSE NoPrevious

Begin(o, p0) ==
    /\ pc \in {"idle", "done"}
    /\ calls < MaxCalls
    /\ calls' = calls + 1
    /\ op' = o
    /\ pc' = p0
    /\ conn' = get_connection
    /\ trace' = <<>>
    /\ outcome' = NoOutcome
    /\ dbBefore' = db
    /\ commands' = <<>>
    /\ cursor' = 1
    /\ previous' = Remember
    /\ observed' = NoObservation
    /\ UNCHANGED <<db, seed, params, built>>

\* SchemaEditorDialog.on_apply: at least one action, then get_connection
\* and alter_table(conn, actions)
SchemaEditorApply ==
    \E batch \in ExecBatches :
        /\ Begin("alter_table", "building")
        /\ actions' = batch
        /\ request' = <<>>

(***************************************************************************)
(* alter_table                                                             *)
(***************************************************************************)
\* lines 157-207: build every statement, then conn.cursor()
AlterBuild ==
    /\ op = "alter_table" /\ pc = "building"
    /\ LET r == BuildCommands(actions, seed)
       IN  IF r.ok
           THEN /\ commands' = r.commands
                /\ pc' = "executing"
                /\ outcome' = outcome
           ELSE /\ commands' = <<>>
                /\ pc' = "raised"
                /\ outcome' = Raised(r.exc, r.msg, <<>>)
    /\ UNCHANGED <<db, conn, op, actions, cursor, request, trace, dbBefore,
                   seed, calls, params, built, previous, observed>>

\* a handler inside the loop that goes on with the same statement
OnStatementErrorRetry == "executing"

\* where an exception of cur.execute takes control: the try statement
\* encloses the whole loop, so to the except branch of line 213
OnStatementError == "failed"

\* line 210: cur.execute(cmd) of the next statement; the backend applies it
\* inside the transaction or raises
AlterExecute ==
    /\ op = "alter_table" /\ pc = "executing"
    /\ cursor <= Len(commands)
    /\ \/ /\ conn' = Executed(conn, <<Effect(commands[cursor], <<>>)>>)
          /\ trace' = Append(trace, Event("execute", commands[cursor], TRUE))
          /\ cursor' = cursor + 1
          /\ pc' = pc
          /\ outcome' = outcome
       \/ \E m \in RawMessages :
          /\ conn' = Aborted(conn)
          /\ trace' = Append(trace, Event("execute", commands[cursor], FALSE))
          /\ cursor' = cursor
          /\ pc' = OnStatementError
          /\ outcome' = [NoOutcome EXCEPT !.kind = "caught", !.raw = m]
    /\ UNCHANGED <<db, op, actions, commands, request, dbBefore, seed, calls,
                   params, built, previous, observed>>

\* the summary alter_table returns
Summary(n) == <<"Successfully applied", ToString(n), "changes.">>

\* an exit that leaves the cursor open
CleanupLeavesCursor(e) == <<Event(e, <<>>, TRUE)>>

\* the end of the try statement: conn.commit() or conn.rollback(), then the
\* cur.close() of the finally clause (line 219)
Cleanup(e) == <<Event(e, <<>>, TRUE), Event("cursor.close", <<>>, TRUE)>>

\* lines 211-212 and 219: conn.commit(), return the summary, cur.close();
\* conn.commit() stands inside the try, so a commit the backend refuses
\* (nothing becomes durable) is handled like a failed statement
AlterCommit ==
    /\ op = "alter_table" /\ pc = "executing"
    /\ cursor > Len(commands)
    /\ \/ /\ db' = Committed(db, conn)
          /\ conn' = Commit(conn)
          /\ trace' = trace \o Cleanup("commit")
          /\ outcome' = Returned(Summary(Len(commands)))
          /\ pc' = "returned"
       \/ \E m \in RawMessages :
          /\ db' = db
          /\ conn' = Aborted(conn)
          /\ trace' = Append(trace, Event("commit", <<>>, FALSE))
          /\ outcome' = [NoOutcome EXCEPT !.kind = "caught", !.raw = m]
          /\ pc' = "failed"
    /\ UNCHANGED <<op, actions, commands, cursor, request, dbBefore, seed,
                   calls, params, built, previous, observed>>

\* lines 213-219: conn.rollback(), raise DBError(_humanize_pg_error(e)),
\* cur.close()
AlterRollback ==
    /\ op = "alter_table" /\ pc = "failed"
    /\ conn' = Rollback(conn)
    /\ db' = RolledBack(db, conn)
    /\ trace' = trace \o Cleanup("rollback")
    /\ outcome' = Raised("DBError", humanize_pg_error(outcome.raw), outcome.raw)
    /\ pc' = "raised"
    /\ UNCHANGED <<op, actions, commands, cursor, request, dbBefore, seed,
                   calls, params, built, previous, observed>>

(***************************************************************************)
(* The query operations                                                    *)
(***************************************************************************)
\* what an operation other than alter_table leaves alone
QueryFrame == UNCHANGED <<op, actions, commands, cursor, request, dbBefore,
                          seed, calls, params, built, previous, observed>>

\* SelectBuilderDialog.on_accept / on_preview: get_connection, execute_select
SelectBuilderAccept ==
    \E p \in ExecSelects :
        /\ Begin("execute_select", "executing")
        /\ request' = p
        /\ actions' = <<>>

\* execute_select, lines 298-305
execute_select ==
    /\ op = "execute_select" /\ pc = "executing"
    /\ LET q == build_select_sql(request)
       IN  \/ /\ conn' = Executed(conn, <<>>)
              /\ trace' = Append(trace, Event("execute", q.text, TRUE))
              /\ outcome' = Returned(fetchall(db, request))
              /\ pc' = "returned"
           \/ \E m \in RawMessages :
              /\ conn' = Aborted(conn)
              /\ trace' = Append(trace, Event("execute", q.text, FALSE))
              /\ outcome' = Raised("DBError", humanize_pg_error(m), m)
              /\ pc' = "raised"
    /\ db' = db
    /\ QueryFrame

\* a caller of explain_select on a connection of its own
ExplainCall ==
    \E p \in ExecSelects :
        /\ Begin("explain_select", "executing")
        /\ request' = p
        /\ actions' = <<>>

\* explain_select, lines 401-407
explain_select ==
    /\ op = "explain_select" /\ pc = "executing"
    /\ LET q == build_select_sql(request)
           text == <<Kw("EXPLAIN")>> \o q.text
       IN  \/ /\ conn' = Executed(conn, <<>>)
              /\ trace' = Append(trace, Event("execute", text, TRUE))
              /\ outcome' = Returned(Plan)
              /\ pc' = "returned"
           \/ \E m \in RawMessages :
              /\ conn' = Aborted(conn)
              /\ trace' = Append(trace, Event("execute", text, FALSE))
              /\ outcome' = Raised("DBError", humanize_pg_error(m), m)
              /\ pc' = "raised"
    /\ db' = db
    /\ QueryFrame

\* SearchDialog.on_search: get_connection, safe_execute(conn, q, [val])
SearchDialogSearch ==
    \E mode \in {"LIKE", "~*"} :
        /\ Begin("safe_execute", "executing")
        /\ request' = RawStatement("search", SearchQuery("t", "name", mode),
                                   <<PyStr("n%")>>, TRUE, FALSE)
        /\ actions' = <<>>

\* MainWindow.on_create_table: get_connection, safe_execute(conn, q)
CreateTable ==
    /\ Begin("safe_execute", "executing")
    /\ request' = RawStatement("create_table", CreateTableQuery("new"), <<>>, FALSE, TRUE)
    /\ actions' = <<>>

\* INSERT INTO "t" ("name") VALUES (%s) RETURNING "id": a statement that
\* changes the database and has a result set
InsertReturning ==
    InsertQuery("t", <<"name">>) \o <<Kw("RETURNING"), [k |-> "dq", s |-> "id"]>>

\* a caller of safe_execute(conn, query, args) on a connection of its own
SafeExecuteCall ==
    /\ Begin("safe_execute", "executing")
    /\ request' = RawStatement("caller", InsertReturning, <<PyStr("n")>>, TRUE, TRUE)
    /\ actions' = <<>>

\* a statement taken to have a result set whatever it is
HasResultSetAlways(r) == TRUE

\* line 370, `if cur.description`: the statement produced a result set
HasResultSet(r) == r.returns

\* safe_execute, lines 366-377
safe_execute ==
    /\ op = "safe_execute" /\ pc = "executing"
    /\ LET effects == IF request.modifies
                      THEN <<Effect(request.stmt, request.args)>> ELSE <<>>
           done == IF request.handler = "create_table" THEN "preview" ELSE "returned"
       IN  \/ /\ HasResultSet(request)
              /\ conn' = Executed(conn, effects)
              /\ db' = db
              /\ trace' = Append(trace, Event("execute", request.stmt, TRUE))
              /\ outcome' = Returned(Rows)
              /\ pc' = done
           \/ /\ ~HasResultSet(request)
              /\ conn' = Commit(Executed(conn, effects))
              /\ db' = Committed(db, Executed(conn, effects))
              /\ trace' = trace \o <<Event("execute", request.stmt, TRUE),
                                     Event("commit", <<>>, TRUE)>>
              /\ outcome' = Returned(<<>>)
              /\ pc' = done
           \/ \E m \in RawMessages :
              /\ conn' = Rollback(Aborted(conn))
              /\ db' = RolledBack(db, Aborted(conn))
              /\ trace' = trace \o <<Event("execute", request.stmt, FALSE),
                                     Event("rollback", <<>>, TRUE)>>
              /\ outcome' = Raised("DBError", humanize_pg_error(m), m)
              /\ pc' = "raised"
    /\ QueryFrame

\* MainWindow.on_create_table, line 184: preview_table(conn, table, limit=0)
\* on the same connection; preview_table catches nothing
preview_table ==
    /\ pc = "preview"
    /\ LET text == <<Kw("SELECT * FROM"), Identifier("new"), Kw("LIMIT"), Ph>>
       IN  \/ /\ conn' = Executed(conn, <<>>)
              /\ trace' = Append(trace, Event("execute", text, TRUE))
              /\ outcome' = Returned(Rows)
              /\ pc' = "returned"
           \/ \E m \in RawMessages :
              /\ conn' = Aborted(conn)
              /\ trace' = Append(trace, Event("execute", text, FALSE))
              /\ outcome' = Raised("psycopg2.Error", m, m)
              /\ pc' = "raised"
    /\ op' = "preview_table"
    /\ UNCHANGED <<db, actions, commands, cursor, request, dbBefore, seed,
                   calls, params, built, previous, observed>>

\* StringFuncsDialog.on_apply: get_connection, apply_string_func
StringFuncsApply ==
    \E r \in StringRequests :
        /\ Begin("apply_string_func", "executing")
        /\ request' = r
        /\ actions' = <<>>

\* apply_string_func, lines 330-349; cur.execute is called with whatever
\* extra_args holds and fails in the driver, before a transaction is begun,
\* when their number does not fit the statement
apply_string_func ==
    /\ op = "apply_string_func" /\ pc = "executing"
    /\ LET func == UpperStrip(request.func)
       IN  IF func \notin DOMAIN VALID_STRING_FUNCS(Identifier(request.column))
           THEN /\ conn' = conn
                /\ trace' = trace
                /\ outcome' = Raised("DBError", <<"Unknown string function:", func>>, <<>>)
                /\ pc' = "raised"
           ELSE LET q == StringQuery(request, func)
                    e == FormatError(q, request.extra_args)
                IN  IF e # <<>>
                    THEN /\ conn' = conn
                         /\ trace' = Append(trace, Event("execute", q, FALSE))
                         /\ outcome' = Raised("DBError", humanize_pg_error(e), <<>>)
                         /\ pc' = "raised"
                    ELSE \/ /\ conn' = Executed(conn, <<>>)
                            /\ trace' = Append(trace, Event("execute", q, TRUE))
                            /\ outcome' = Returned(Rows)
                            /\ pc' = "returned"
                         \/ \E m \in RawMessages :
                            /\ conn' = Aborted(conn)
                            /\ trace' = Append(trace, Event("execute", q, FALSE))
                            /\ outcome' = Raised("DBError", humanize_pg_error(m), m)
                            /\ pc' = "raised"
    /\ db' = db
    /\ QueryFrame

\* InsertRowDialog._on_save: get_connection, then the INSERT
InsertRowSave ==
    \E r \in InsertRequests :
        /\ Begin("insert_row", "executing")
        /\ request' = r
        /\ actions' = <<>>

\* InsertRowDialog._on_save, lines 1170-1176: cur.execute(q, vals) and
\* conn.commit(); an exception reaches the dialog as psycopg2 raised it
insert_row ==
    /\ op = "insert_row" /\ pc = "executing"
    /\ LET q == InsertQuery(request.table, request.cols)
           after == Executed(conn, <<Effect(q, request.vals)>>)
       IN  \/ /\ conn' = Commit(after)
              /\ db' = Committed(db, after)
              /\ trace' = trace \o <<Event("execute", q, TRUE), Event("commit", <<>>, TRUE)>>
              /\ outcome' = Returned(<<>>)
              /\ pc' = "returned"
           \/ \E m \in RawMessages :
              /\ conn' = Aborted(conn)
              /\ db' = db
              /\ trace' = Append(trace, Event("execute", q, FALSE))
              /\ outcome' = Raised("psycopg2.Error", m, m)
              /\ pc' = "raised"
    /\ QueryFrame

(***************************************************************************)
(* Introspection.  What a connection reads from the catalogue is a         *)
(* function of the committed database; the rows stand in the order the     *)
(* catalogue holds them (the queries fix the order with ORDER BY).         *)
(***************************************************************************)
\* the statements committed to d
Statements(d) == [i \in 1..Len(d) |-> d[i].stmt]

\* list_tables: the tables of the database, "t" from the start
TablesOf(d) ==
    LET made == SelectSeq(Statements(d), LAMBDA st : st[1] = Kw("CREATE TABLE IF NOT EXISTS"))
    IN  <<"t">> \o [i \in 1..Len(made) |-> made[i][2].s]

\* get_columns: the columns of a table, id and name from the start
ColumnsOf(d, t) ==
    LET added == SelectSeq(Statements(d),
                           LAMBDA st : /\ st[1] = Kw("ALTER TABLE") /\ st[2].s = t
                                       /\ st[3] = Kw("ADD COLUMN"))
    IN  IF t \in {TablesOf(d)[i] : i \in 1..Len(TablesOf(d))}
        THEN <<"id", "name">> \o [i \in 1..Len(added) |-> added[i][4].s]
        ELSE <<>>

\* get_constraints: name and kind of the constraints of a table; the loop
\* of lines 112-114 adds type_verbose to each row
ConstraintsOf(d, t) ==
    LET added == SelectSeq(Statements(d),
                           LAMBDA st : /\ st[1] = Kw("ALTER TABLE") /\ st[2].s = t
                                       /\ st[3] = Kw("ADD CONSTRAINT"))
    IN  [i \in 1..Len(added) |->
            [name |-> added[i][4].s,
             type_verbose |-> CASE added[i][5] = Kw("UNIQUE (") -> "UNIQUE"
                                [] added[i][5] = Kw("CHECK (") -> "CHECK"
                                [] OTHER -> "FOREIGN KEY"]]

\* get_foreign_keys: the constraints with contype 'f'
ForeignKeysOf(d, t) ==
    LET fks == SelectSeq(ConstraintsOf(d, t), LAMBDA r : r.type_verbose = "FOREIGN KEY")
    IN  [i \in 1..Len(fks) |-> fks[i].name]

\* rows that differ from one call to the next
IntrospectPerCall(o, d, t) == <<ToString(calls)>> \o ColumnsOf(d, t)

\* the rows an introspection function returns
Introspect(o, d, t) ==
    CASE o = "list_tables" -> TablesOf(d)
      [] o = "get_columns" -> ColumnsOf(d, t)
      [] o = "get_constraints" -> ConstraintsOf(d, t)
      [] OTHER -> ForeignKeysOf(d, t)

\* InsertRowDialog._on_load_fields, lines 1054-1062: get_connection, then
\* get_columns(conn, tbl, schema="public")
InsertRowLoadFields ==
    \E t \in {"t", "missing"} :
        /\ Begin("get_columns", "executing")
        /\ request' = [handler |-> "load_fields", table |-> t]
        /\ actions' = <<>>

\* list_tables, get_columns, get_constraints, get_foreign_keys: one execute
\* of a catalogue query and fetchall; no commit, no rollback, an exception
\* of the driver passes through
introspect ==
    /\ op \in IntrospectionOps /\ pc = "executing"
    /\ LET text == <<Kw("select"), Kw(op), Ph>>
       IN  \/ /\ conn' = Executed(conn, <<>>)
              /\ trace' = Append(trace, Event("execute", text, TRUE))
              /\ outcome' = Returned(Introspect(op, db, request.table))
              /\ pc' = "returned"
           \/ \E m \in RawMessages :
              /\ conn' = Aborted(conn)
              /\ trace' = Append(trace, Event("execute", text, FALSE))
              /\ outcome' = Raised("psycopg2.Error", m, m)
              /\ pc' = "raised"
    /\ db' = db
    /\ QueryFrame

(***************************************************************************)
(* The end of a handler: a message box and conn.close().                   *)
(***************************************************************************)
\* the handler shows its message box while the connection is still open:
\* the box stands inside the try whose finally closes the connection, or
\* before the conn.close() of the branch
BoxBeforeClose ==
    CASE op = "alter_table" -> outcome.kind = "returned"
      [] op = "execute_select" -> outcome.kind = "returned"
      [] op = "safe_execute" -> request.handler = "search"
      [] op = "preview_table" -> outcome.kind = "returned"
      [] op = "apply_string_func" -> TRUE
      [] op = "insert_row" -> outcome.kind = "returned"
      [] op = "get_columns" ->
            /\ request.handler = "load_fields"
            /\ outcome.kind = "raised" \/ outcome.value = <<>>
      [] OTHER -> FALSE

\* QMessageBox.information / critical: the handler waits for the user
MessageBox ==
    /\ pc \in {"returned", "raised"}
    /\ BoxBeforeClose
    /\ pc' = "box"
    /\ UNCHANGED <<db, conn, op, actions, commands, cursor, request, trace,
                   outcome, dbBefore, seed, calls, params, built, previous, observed>>

\* conn.close() of the handler (its `finally`, or lines 1065 and 1100 of
\* _on_load_fields); a handler that has not shown its box yet shows it
\* after the close
Finish ==
    /\ \/ pc = "box"
       \/ pc \in {"returned", "raised"} /\ ~BoxBeforeClose
    /\ conn' = Close(conn)
    /\ trace' = Append(trace, Event("close", <<>>, TRUE))
    /\ pc' = "done"
    /\ UNCHANGED <<db, op, actions, commands, cursor, request, outcome,
                   dbBefore, seed, calls, params, built, previous, observed>>

(***************************************************************************)
(* Specification of the executor                                           *)
(***************************************************************************)
Init ==
    /\ db = <<>>
    /\ conn = NoConn
    /\ op = "none"
    /\ pc = "idle"
    /\ actions = <<>>
    /\ commands = <<>>
    /\ cursor = 1
    /\ request = <<>>
    /\ trace = <<>>
    /\ outcome = NoOutcome
    /\ dbBefore = <<>>
    /\ seed \in Seeds
    /\ calls = 0
    /\ params = <<>>
    /\ built = NotBuilt
    /\ previous = NoPrevious
    /\ observed = NoObservation

Next ==
    \/ SchemaEditorApply
    \/ AlterBuild
    \/ AlterExecute
    \/ AlterCommit
    \/ AlterRollback
    \/ SelectBuilderAccept
    \/ execute_select
    \/ ExplainCall
    \/ explain_select
    \/ SearchDialogSearch
    \/ CreateTable
    \/ SafeExecuteCall
    \/ safe_execute
    \/ preview_table
    \/ StringFuncsApply
    \/ apply_string_func
    \/ InsertRowSave
    \/ insert_row
    \/ InsertRowLoadFields
    \/ introspect
    \/ MessageBox
    \/ Finish

Spec == Init /\ [][Next]_vars

(***************************************************************************)
(* Specification of alter_table with a reader: while the schema editor     *)
(* applies its batches, another session calls the introspection functions  *)
(* on a connection of its own.                                             *)
(***************************************************************************)
\* a reader that sees the statements of transactions still open
SnapshotDirty(d, c) == d \o c.pending

\* what a statement of another session sees of the database while the
\* connection c has a transaction open (get_connection leaves the
\* connection at psycopg2's defaults: autocommit off, READ COMMITTED): the
\* committed effects, none of c's pending ones
Snapshot(d, c) == d

\* the functions the reader calls
ReaderOps == {"get_columns", "get_constraints"}

\* another session runs one introspection query at any moment of the call
\* (one read for each call: a read changes nothing of the database)
ConcurrentRead ==
    \E o \in ReaderOps :
        /\ op = "alter_table" /\ pc # "idle"
        /\ observed = NoObservation
        /\ observed' = [o |-> o, table |-> "t", at |-> Len(trace),
                        value |-> Introspect(o, Snapshot(db, conn), "t")]
        /\ UNCHANGED <<db, conn, op, pc, actions, commands, cursor, request, trace,
                       outcome, dbBefore, seed, calls, params, built, previous>>

NextConcurrent ==
    \/ SchemaEditorApply
    \/ AlterBuild
    \/ AlterExecute
    \/ AlterCommit
    \/ AlterRollback
    \/ MessageBox
    \/ Finish
    \/ ConcurrentRead

\* no handler running, the database empty; the names alter_table derives
\* are those of one run of the interpreter
InitConcurrent == Init /\ seed = 0

SpecConcurrent == InitConcurrent /\ [][NextConcurrent]_vars

(***************************************************************************)
(* Specification of the statement builder of alter_table: the batch is     *)
(* drawn from every kind of action, complete and with one field absent.    *)
(***************************************************************************)
CompleteActions ==
    {[AlterAction("add_column", "t") EXCEPT !.column = "a", !.data_type = "INTEGER"],
     [AlterAction("drop_column", "t") EXCEPT !.column = "a"],
     [AlterAction("drop_column", "t") EXCEPT !.column = "a", !.cascade = TRUE],
     [AlterAction("rename_column", "t") EXCEPT !.column = "a", !.new_name = "b"],
     [AlterAction("rename_table", "t") EXCEPT !.new_name = "t2"],
     [AlterAction("alter_type", "t") EXCEPT !.column = "a", !.data_type = "TEXT"],
     [AlterAction("set_not_null", "t") EXCEPT !.column = "a"],
     [AlterAction("drop_not_null", "t") EXCEPT !.column = "a"],
     [AlterAction("drop_constraint", "t") EXCEPT !.constraint_name = "c1"],
     AlterAction("bogus", "t")}
    \cup {[AlterAction("add_unique", "t") EXCEPT !.column = "a", !.constraint_name = n] :
            n \in {None, "c1"}}
    \cup {[AlterAction("add_check", "t") EXCEPT !.check_expr = e, !.constraint_name = n] :
            e \in {"x > 0", "y > 0"}, n \in {None, "c1"}}
    \cup {[AlterAction("add_foreign_key", "t") EXCEPT !.column = "a", !.ref_table = "r",
                !.ref_column = "id", !.constraint_name = n] : n \in {None, "c1"}}

\* the fields an action of each kind needs
Required(kind) ==
    CASE kind \in {"drop_column", "set_not_null", "drop_not_null", "add_unique"} -> {"column"}
      [] kind \in {"add_column", "alter_type"} -> {"column", "data_type"}
      [] kind = "rename_column" -> {"column", "new_name"}
      [] kind = "rename_table" -> {"new_name"}
      [] kind = "add_check" -> {"check_expr"}
      [] kind = "add_foreign_key" -> {"column", "ref_table", "ref_column"}
      [] kind = "drop_constraint" -> {"constraint_name"}
      [] OTHER -> {}

Incomplete(a) == \E f \in Required(a.kind) : a[f] = None

BuildActions ==
    CompleteActions
    \cup {[a EXCEPT ![f] = None] : a \in CompleteActions, f \in {"column", "new_name"}}
    \cup {[a EXCEPT ![f] = None] : a \in CompleteActions, f \in {"data_type", "check_expr"}}
    \cup {[a EXCEPT ![f] = None] : a \in CompleteActions,
                                   f \in {"ref_table", "ref_column", "constraint_name"}}

InitBuild ==
    /\ db = <<>>
    /\ conn = get_connection
    /\ op = "alter_table"
    /\ pc = "building"
    /\ \E n \in 1..MaxBatch : actions \in [1..n -> BuildActions]
    /\ commands = <<>>
    /\ cursor = 1
    /\ request = <<>>
    /\ trace = <<>>
    /\ outcome = NoOutcome
    /\ dbBefore = <<>>
    /\ seed \in Seeds
    /\ calls = 1
    /\ params = <<>>
    /\ built = NotBuilt
    /\ previous = NoPrevious
    /\ observed = NoObservation

NextBuild == AlterBuild

SpecBuild == InitBuild /\ [][NextBuild]_vars

(***************************************************************************)
(* Specification of build_select_sql: the SelectParams is drawn from       *)
(* bounded lists, then built.                                              *)
(***************************************************************************)
WhereConds == {[col |-> "x", op |-> " like ", val |-> PyInt(5)], [col |-> "y"]}
HavingConds == {[col |-> "count(*)", op |-> ">", val |-> PyInt(8)],
                [col |-> "sum(x)", op |-> "<= 9 OR 1 <", val |-> PyInt(9)]}
JoinSpecs == {[type |-> "left", table |-> "b", on |-> "a.id=b.a_id"]}
Limits == {PyNone, PyInt(0), PyInt(3)}
Offsets == {PyNone, PyInt(0)}

SelectInputs ==
    {[tables |-> tb, columns |-> cs, joins |-> js, where |-> wh, group_by |-> gb,
      having |-> hv, order_by |-> ob, limit |-> lim, offset |-> off] :
        tb \in SeqsUpTo({"t"}, MaxList) \ {<<>>},
        cs \in SeqsUpTo({"c"}, MaxList),
        js \in SeqsUpTo(JoinSpecs, MaxList),
        wh \in SeqsUpTo(WhereConds, MaxConds),
        gb \in SeqsUpTo({"g"}, MaxList),
        hv \in SeqsUpTo(HavingConds, MaxConds),
        ob \in SeqsUpTo({<<"x", "DESC">>}, MaxList),
        lim \in Limits,
        off \in Offsets}
    \cup {SelectParams(<<>>)}

InitSelect ==
    /\ db = <<>>
    /\ conn = NoConn
    /\ op = "none"
    /\ pc = "idle"
    /\ actions = <<>>
    /\ commands = <<>>
    /\ cursor = 1
    /\ request = <<>>
    /\ trace = <<>>
    /\ outcome = NoOutcome
    /\ dbBefore = <<>>
    /\ seed = 0
    /\ calls = 0
    /\ params \in SelectInputs
    /\ built = NotBuilt
    /\ previous = NoPrevious
    /\ observed = NoObservation

\* one call of build_select_sql(params)
BuildSelect ==
    /\ built = NotBuilt
    /\ built' = build_select_sql(params)
    /\ UNCHANGED <<db, conn, op, pc, actions, commands, cursor, request, trace,
                   outcome, dbBefore, seed, calls, params, previous, observed>>

NextSelect == BuildSelect

SpecSelect == InitSelect /\ [][NextSelect]_vars

(***************************************************************************)
(* Specification of the introspection functions: a caller makes calls on   *)
(* short-lived connections while other sessions change the schema.         *)
(***************************************************************************)
AddForeignKey ==
    [AlterAction("add_foreign_key", "t") EXCEPT !.column = "a", !.ref_table = "r",
                                                !.ref_column = "id"]

\* what another session may commit
SchemaChanges ==
    {Effect(BuildCommand(a, 0).cmd, <<>>) : a \in {AddColumn, AddForeignKey}}
    \cup {Effect(CreateTableQuery("new"), <<>>)}

InitIntrospect ==
    /\ db = <<>>
    /\ conn = NoConn
    /\ op = "none"
    /\ pc = "idle"
    /\ actions = <<>>
    /\ commands = <<>>
    /\ cursor = 1
    /\ request = <<>>
    /\ trace = <<>>
    /\ outcome = NoOutcome
    /\ dbBefore = <<>>
    /\ seed = 0
    /\ calls = 0
    /\ params = <<>>
    /\ built = NotBuilt
    /\ previous = NoPrevious
    /\ observed = NoObservation

\* a caller opens a connection and calls one of the introspection functions
IntrospectCall ==
    \E o \in IntrospectionOps, t \in {"t", "new"} :
        /\ Begin(o, "executing")
        /\ request' = [handler |-> "none", table |-> t]
        /\ actions' = <<>>

\* another session commits a change of the schema between two calls
OtherSession ==
    \E e \in SchemaChanges :
        /\ pc \in {"idle", "done"}
        /\ Len(db) < MaxChanges
        /\ db' = Append(db, e)
        /\ UNCHANGED <<conn, op, pc, actions, commands, cursor, request, trace,
                       outcome, dbBefore, seed, calls, params, built, previous, observed>>

NextIntrospect ==
    \/ IntrospectCall
    \/ introspect
    \/ Finish
    \/ OtherSession

SpecIntrospect == InitIntrospect /\ [][NextIntrospect]_vars

(***************************************************************************)
(* Specification of _humanize_pg_error: a raw message is drawn from the    *)
(* words of backend messages, then translated.                             *)
(***************************************************************************)
Words == {"unique", "UNIQUE", "not-null", "foreign", "key", "check", "constraint",
          "syntax", "does", "not", "exist", "duplicate", "object", "invalid",
          "input", "cannot", "drop", "column", "deadlock"}

InitTranslate ==
    /\ db = <<>>
    /\ conn = NoConn
    /\ op = "none"
    /\ pc = "idle"
    /\ actions = <<>>
    /\ commands = <<>>
    /\ cursor = 1
    /\ request \in SeqsUpTo(Words, MaxWords)
    /\ trace = <<>>
    /\ outcome = NoOutcome
    /\ dbBefore = <<>>
    /\ seed = 0
    /\ calls = 0
    /\ params = <<>>
    /\ built = NotBuilt
    /\ previous = NoPrevious
    /\ observed = NoObservation

\* one call of _humanize_pg_error(e) with str(e) = request
Translate ==
    /\ pc = "idle"
    /\ op' = "humanize_pg_error"
    /\ outcome' = Returned(humanize_pg_error(request))
    /\ pc' = "done"
    /\ UNCHANGED <<db, conn, actions, commands, cursor, request, trace, dbBefore,
                   seed, calls, params, built, previous, observed>>

NextTranslate == Translate

SpecTranslate == InitTranslate /\ [][NextTranslate]_vars

(***************************************************************************)
(* Specification of SelectBuilderDialog._collect_params: the state of the  *)
(* form is drawn from bounded sets, then collected and built.              *)
(***************************************************************************)
\* what the user entered in the tables line edit, split at the commas
TablesEdits == {<<>>, <<"">>, <<"t">>, <<"t", "">>}

\* the form: the tables line edit and the two spin boxes (lines 705-706,
\* range from 0)
SelectForms ==
    {[tables_edit |-> te, limit_spin |-> l, offset_spin |-> o] :
        te \in TablesEdits, l \in 0..MaxSpin, o \in 0..MaxSpin}

\* lines 745-746: `spin.value() if spin.value() > 0 else None`
SpinValue(v) == IF v > 0 THEN PyInt(v) ELSE PyNone

\* lines 731-732: the entries that are not blank
EnteredTables(f) == SelectSeq(f.tables_edit, LAMBDA x : Strip(x) # "")

InitCollect ==
    /\ db = <<>>
    /\ conn = NoConn
    /\ op = "none"
    /\ pc = "idle"
    /\ actions = <<>>
    /\ commands = <<>>
    /\ cursor = 1
    /\ request \in SelectForms
    /\ trace = <<>>
    /\ outcome = NoOutcome
    /\ dbBefore = <<>>
    /\ seed = 0
    /\ calls = 0
    /\ params = <<>>
    /\ built = NotBuilt
    /\ previous = NoPrevious
    /\ observed = NoObservation

\* _collect_params, lines 729-758: ValueError for an empty table list,
\* otherwise the SelectParams of the form
collect_params ==
    /\ pc = "idle"
    /\ op' = "collect_params"
    /\ IF EnteredTables(request) = <<>>
       THEN /\ outcome' = Raised("ValueError", <<"Name at least one table.">>, <<>>)
            /\ params' = params
            /\ pc' = "raised"
       ELSE /\ params' = [SelectParams(EnteredTables(request)) EXCEPT
                              !.limit = SpinValue(request.limit_spin),
                              !.offset = SpinValue(request.offset_spin)]
            /\ outcome' = Returned(<<>>)
            /\ pc' = "collected"
    /\ UNCHANGED <<db, conn, actions, commands, cursor, request, trace, dbBefore,
                   seed, calls, built, previous, observed>>

\* on_preview, line 766: build_select_sql(params) of the collected params
BuildCollected ==
    /\ pc = "collected"
    /\ built' = build_select_sql(params)
    /\ pc' = "done"
    /\ UNCHANGED <<db, conn, op, actions, commands, cursor, request, trace,
                   outcome, dbBefore, seed, calls, params, previous, observed>>

NextCollect ==
    \/ collect_params
    \/ BuildCollected

SpecCollect == InitCollect /\ [][NextCollect]_vars

(***************************************************************************)
(* Properties of the executor (specification Spec)                         *)
(***************************************************************************)
Executes(tr) == SelectSeq(tr, LAMBDA ev : ev.e = "execute")
Count(tr, e) == Cardinality({i \in 1..Len(tr) : tr[i].e = e})

\* an execute of this invocation was answered with a backend error
BackendFailure == outcome.kind = "raised" /\ outcome.raw # <<>>

\* C1: when a statement of an alter_table batch fails in execution, then
\* once the call has raised the database is what it was before the call
C1_Atomicity ==
    (op = "alter_table" /\ BackendFailure) => db = dbBefore

\* C1: the second statement of a batch failed after the first had been
\* executed, on a database that already had content
C1_Witness ==
    /\ op = "alter_table" /\ pc = "raised" /\ BackendFailure
    /\ Len(Executes(trace)) = 2 /\ Executes(trace)[1].ok
    /\ dbBefore # <<>>

BuildFails == \E i \in 1..Len(actions) : ~BuildCommand(actions[i], seed).ok

\* C3: when the statement of some action of the batch cannot be built,
\* alter_table executes nothing and commits nothing, and it raises
C3_BuildFailsFast ==
    (op = "alter_table" /\ BuildFails) =>
        /\ Count(trace, "execute") = 0
        /\ Count(trace, "commit") = 0
        /\ conn.pending = <<>>
        /\ db = dbBefore
        /\ pc # "building" => outcome.kind = "raised"

\* C3: the faulty action is the second of the batch, the first one is fine
C3_Witness ==
    /\ op = "alter_table" /\ pc = "raised"
    /\ Len(actions) = 2
    /\ BuildCommand(actions[1], seed).ok
    /\ ~BuildCommand(actions[2], seed).ok

\* C5: the statements alter_table executes are the statements of the
\* actions, one ALTER TABLE each, in the order of the batch; a statement is
\* executed only after all before it succeeded; a successful call executed
\* all of them
C5_ExecutionOrder ==
    op = "alter_table" =>
        LET ex == Executes(trace)
        IN  /\ Len(ex) <= Len(actions)
            /\ \A j \in 1..Len(ex) :
                /\ ex[j].stmt = BuildCommand(actions[j], seed).cmd
                /\ ex[j].stmt[1] = Kw("ALTER TABLE")
                /\ Cardinality({n \in 1..Len(ex[j].stmt) :
                                    ex[j].stmt[n] = Kw("ALTER TABLE")}) = 1
                /\ j < Len(ex) => ex[j].ok
            /\ outcome.kind = "returned" =>
                /\ Len(ex) = Len(actions)
                /\ \A j \in 1..Len(ex) : ex[j].ok

\* C5: a batch of two different actions was executed successfully
C5_Witness ==
    /\ op = "alter_table" /\ pc = "returned"
    /\ Len(actions) = 2 /\ actions[1] # actions[2]
    /\ Len(Executes(trace)) = 2

\* C6: in every operation that executes SQL, a rollback is issued on the
\* connection after the backend reported an error and before the
\* translated error is raised
C6_RollbackBeforeRaise ==
    (/\ op \in {"alter_table", "execute_select", "safe_execute",
                "apply_string_func", "explain_select"}
     /\ pc = "raised" /\ BackendFailure) =>
        \E i, j \in 1..Len(trace) :
            /\ i < j
            /\ ~trace[i].ok
            /\ trace[j].e = "rollback"

\* the plain-language categories of the translator
Categories == {mapping[i].v : i \in 1..Len(mapping)}

\* C7: every failure that stems from the backend reaches the caller as a
\* translated error (DBError) whose message has a category and the whole
\* raw message
C7_TranslatedError ==
    (/\ op \in {"alter_table", "execute_select", "safe_execute",
                "apply_string_func", "explain_select", "insert_row"}
     /\ pc = "raised" /\ BackendFailure) =>
        /\ outcome.exc = "DBError"
        /\ Contains(outcome.msg, outcome.raw)
        /\ \E i \in 1..Len(outcome.msg) : outcome.msg[i] \in Categories

(***************************************************************************)
(* Properties of the statement builder (specification SpecBuild)           *)
(***************************************************************************)
\* C4: an action without a field its kind requires makes the builder fail
\* with DBError, and no statement is emitted
C4_MissingFieldIsBuildError ==
    (pc # "building" /\ \E i \in 1..Len(actions) : Incomplete(actions[i])) =>
        /\ outcome.kind = "raised"
        /\ outcome.exc = "DBError"
        /\ commands = <<>>

(***************************************************************************)
(* Properties of build_select_sql (specification SpecSelect)               *)
(***************************************************************************)
ClauseWords == {"SELECT", "FROM", "JOIN", "WHERE", "GROUP BY", "HAVING",
                "ORDER BY", "LIMIT", "OFFSET"}

IsClause(tok) == tok.k = "kw" /\ tok.s \in ClauseWords

\* the clause keywords of a statement, in text order
Clauses(text) ==
    LET ks == SelectSeq(text, IsClause) IN [i \in 1..Len(ks) |-> ks[i].s]

\* the positions of the placeholders, in text order
PlaceholderAt(text) ==
    SelectSeq([i \in 1..Len(text) |-> i], LAMBDA i : text[i] = Ph)

\* the clause a position of the text lies in
ClauseOf(text, i) ==
    LET ks == {j \in 1..i : IsClause(text[j])}
    IN  text[CHOOSE j \in ks : \A l \in ks : l <= j].s

Repeat(x, n) == [i \in 1..n |-> x]
Opt(cond, x) == IF cond THEN <<x>> ELSE <<>>

C10_ZeroIsNotUnset ==
    built # NotBuilt =>
        LET p == params
            base == Len(p.where) + Len(p.having)
            lim == IF p.limit = PyNone THEN 0 ELSE 1
            off == IF p.offset = PyNone THEN 0 ELSE 1
            at == PlaceholderAt(built.text)
            has(w) == \E i \in 1..Len(built.text) : built.text[i] = Kw(w)
        IN  /\ Len(built.args) = base + lim + off
            /\ p.limit = PyNone => ~has("LIMIT")
            /\ p.offset = PyNone => ~has("OFFSET")
            /\ p.limit = PyInt(0) =>
                /\ built.args[base + 1] = PyInt(0)
                /\ built.text[at[base + 1] - 1] = Kw("LIMIT")
            /\ p.offset = PyInt(0) =>
                /\ built.args[base + lim + 1] = PyInt(0)
                /\ built.text[at[base + lim + 1] - 1] = Kw("OFFSET")

\* C10: limit is 0 and offset is unset, with where conditions present
C10_Witness ==
    /\ built # NotBuilt
    /\ params.limit = PyInt(0) /\ params.offset = PyNone
    /\ params.where # <<>>
    /\ built.args[Len(built.args)] = PyInt(0)

\* the values a caller may bind
Values == {PyInt(7), PyInt(42)}

\* str(v): the text an interpolated value would have
Render(v) ==
    CASE v.t = "int" -> ToString(v.v)
      [] v.t = "str" -> v.v
      [] OTHER -> "None"

\* p with the values of its conditions replaced by wv and hv and the
\* numbers of a set limit and offset replaced by lv and ov
Revalue(p, wv, hv, lv, ov) ==
    [p EXCEPT
        !.where = [i \in 1..Len(p.where) |->
                      IF "val" \in DOMAIN p.where[i]
                      THEN [p.where[i] EXCEPT !.val = wv[i]] ELSE p.where[i]],
        !.having = [i \in 1..Len(p.having) |-> [p.having[i] EXCEPT !.val = hv[i]]],
        !.limit = IF IsSet(p.limit) THEN lv ELSE p.limit,
        !.offset = IF IsSet(p.offset) THEN ov ELSE p.offset]

\* C11: the text of the statement stays the same when the values of the
\* where and having conditions and the numbers of a set limit and offset
\* are replaced by other values, and no piece of the text is the text of a
\* bound value
C11_TextIndependentOfValues ==
    built # NotBuilt =>
        /\ \A v \in Values :
               LET vs == [i \in 1..MaxConds |-> v]
               IN  build_select_sql(Revalue(params, vs, vs, v, v)).text = built.text
        /\ \A i \in 1..Len(built.text), j \in 1..Len(built.args) :
               built.text[i].s # Render(built.args[j])

\* C11: a statement with values in where and having, limit and offset
C11_Witness ==
    /\ built # NotBuilt
    /\ Len(params.where) = 2 /\ "val" \in DOMAIN params.where[1]
    /\ params.having # <<>>
    /\ params.limit = PyInt(3) /\ params.offset = PyInt(0)
    /\ built.args[1] = PyInt(5) /\ built.args[Len(built.args) - 1] = PyInt(3)

\* the identifiers a select request supplies: its table references and the
\* columns of its conditions
RequestIdentifiers(p) ==
    {p.tables[i] : i \in 1..Len(p.tables)}
    \cup {p.joins[i].table : i \in 1..Len(p.joins)}
    \cup {p.where[i].col : i \in 1..Len(p.where)}
    \cup {p.having[i].col : i \in 1..Len(p.having)}

\* C12: every identifier of the request stands in the statement text as a
\* quoted identifier (sql.Identifier), never as the raw text of the caller
C12_IdentifiersQuoted ==
    built # NotBuilt =>
        \A i \in 1..Len(built.text) :
            built.text[i].s \in RequestIdentifiers(params) => built.text[i].k = "id"

\* the operators of the fixed set
Operators == {"=", "<>", "<", ">", "<=", ">=", "LIKE", "ILIKE", "~", "~*", "!~", "!~*"}

\* C13: the operator of every WHERE and HAVING condition of the statement
\* is one of the fixed set
C13_OperatorsEnumerated ==
    built # NotBuilt =>
        LET at == PlaceholderAt(built.text)
        IN  \A n \in 1..Len(at) :
                ClauseOf(built.text, at[n]) \in {"WHERE", "HAVING"} =>
                    built.text[at[n] - 1].s \in Operators

(***************************************************************************)
(* Properties of the query operations (specification Spec)                 *)
(***************************************************************************)
\* the number of extra arguments each string function takes
Arity == [UPPER |-> 0, LOWER |-> 0, TRIM |-> 0, SUBSTRING |-> 2, LPAD |-> 2,
          RPAD |-> 2, CONCAT |-> 1]

WrongArity(r) ==
    /\ UpperStrip(r.func) \in DOMAIN Arity
    /\ Len(r.extra_args) # Arity[UpperStrip(r.func)]

\* C14: a call of apply_string_func with a wrong number of extra arguments
\* raises DBError and makes no cursor execute
C14_ArityCheckedBeforeExecute ==
    (op = "apply_string_func" /\ pc \in {"raised", "returned", "done"}
     /\ WrongArity(request)) =>
        /\ outcome.kind = "raised" /\ outcome.exc = "DBError"
        /\ Count(trace, "execute") = 0

\* safe_execute was called with a statement without a result set and the
\* statement executed
NoResultSetExecuted ==
    /\ op \in {"safe_execute", "preview_table"}
    /\ ~request.returns
    /\ trace # <<>> /\ trace[1] = Event("execute", request.stmt, TRUE)

Handlers == {"alter_table", "execute_select", "safe_execute", "preview_table",
             "apply_string_func", "get_columns", "insert_row"}

\* C16: when an operation has returned, on success or on failure, the
\* connection it opened is closed
C16_ConnectionClosedOnReturn ==
    (op \in Handlers /\ pc = "done") => conn.state = "closed"

\* C16: load fields failed in get_columns and has returned, and a schema
\* edit before it has left its changes
C16_Witness ==
    /\ op = "get_columns" /\ pc = "done" /\ outcome.kind = "raised"
    /\ conn.state = "closed" /\ db # <<>>

\* the application waits for the user: a message box is up, or a dialog
\* waits for its next click
WaitingForUser == pc \in {"idle", "box", "done"}

\* C17: while the application waits for the user, no connection holds an
\* open transaction
C17_NoTransactionWhileWaiting ==
    WaitingForUser => ~(conn.state = "open" /\ conn.txn # "idle")

C19_InsertRoundTrip ==
    (op = "insert_row" /\ outcome.kind = "returned") =>
        LET rows == fetchall(db, SelectParams(<<request.table>>))
            row == rows[Len(rows)]
        IN  /\ rows # <<>>
            /\ \A i \in 1..Len(request.fields) :
                   ~request.fields[i].null =>
                       /\ row[i].value.t = request.fields[i].value.t
                       /\ row[i].value.v = request.fields[i].value.v

(***************************************************************************)
(* Properties of the statement builder, continued (specification           *)
(* SpecBuild)                                                              *)
(***************************************************************************)
\* the action gets a derived constraint name
Derives(a) ==
    a.kind \in {"add_unique", "add_check", "add_foreign_key"} /\ ~Truthy(a.constraint_name)

\* lines 183, 187 and 191: the name derived for an action
DefaultName(a, sd) ==
    CASE a.kind = "add_unique" -> UniqueName(a)
      [] a.kind = "add_check" -> CheckName(a, sd)
      [] OTHER -> ForeignKeyName(a)

\* two actions of the batch derive the same name for the same table
NameCollision(as, sd) ==
    \E i, j \in 1..Len(as) :
        /\ i < j
        /\ Derives(as[i]) /\ Derives(as[j])
        /\ as[i].table = as[j].table
        /\ DefaultName(as[i], sd) = DefaultName(as[j], sd)

\* C20: a batch in which two actions derive the same default constraint
\* name is refused by the builder: alter_table raises and emits no statement
C20_NameCollisionRefused ==
    (pc # "building" /\ NameCollision(actions, seed)) =>
        /\ outcome.kind = "raised"
        /\ commands = <<>>

\* C21: the statements built for a batch are the same in every run of the
\* program: whatever hash seed a run draws, building the same actions gives
\* the statements this run built
C21_BuildDeterministic ==
    pc = "executing" =>
        \A sd \in Seeds : BuildCommands(actions, sd).commands = commands

(***************************************************************************)
(* Properties of the executor, continued (specification Spec)              *)
(***************************************************************************)
\* the positions of the events e in the trace
At(e) == {i \in 1..Len(trace) : trace[i].e = e}

\* the invocation of alter_table got past the build and has ended
AlterEnded ==
    /\ op = "alter_table" /\ ~BuildFails
    /\ pc \in {"returned", "raised", "box", "done"}

\* what the original and the amended statement of C22 share: no commit
\* after a failed statement, no statement after commit or rollback, and
\* the cursor closed once the invocation has ended
AlterDiscipline ==
    /\ \A i \in At("execute"), j \in At("commit") : ~trace[i].ok => j < i
    /\ \A i \in At("commit") \cup At("rollback"), j \in At("execute") : j < i
    /\ AlterEnded => Count(trace, "cursor.close") = 1

\* C22 as stated: an invocation of alter_table that got past the build
\* issues exactly one of commit and rollback, never both, never a commit
\* after a failed statement, no statement after either, and closes the cursor
C22_CommitXorRollback ==
    op = "alter_table" =>
        /\ AlterDiscipline
        /\ ~(At("commit") # {} /\ At("rollback") # {})
        /\ AlterEnded => Count(trace, "commit") + Count(trace, "rollback") = 1

\* C22 amended: the invocation ends either committed (one commit that
\* succeeded, no rollback, the changes durable) or rolled back (one
\* rollback, nothing durable); a rollback follows a commit only when that
\* commit failed
C22_CommittedOrRolledBack ==
    op = "alter_table" =>
        /\ AlterDiscipline
        /\ Count(trace, "commit") <= 1 /\ Count(trace, "rollback") <= 1
        /\ \A i \in At("commit"), j \in At("rollback") : i < j /\ ~trace[i].ok
        /\ AlterEnded =>
              \/ /\ outcome.kind = "returned"
                 /\ At("rollback") = {}
                 /\ \E i \in At("commit") : trace[i].ok
                 /\ Len(db) = Len(dbBefore) + Len(commands)
              \/ /\ outcome.kind = "raised"
                 /\ Count(trace, "rollback") = 1
                 /\ db = dbBefore

\* C22: a batch of two statements was executed, its commit failed and
\* alter_table rolled back and closed the cursor
C22_Witness ==
    /\ op = "alter_table" /\ pc = "raised"
    /\ Len(commands) = 2 /\ Len(Executes(trace)) = 2
    /\ At("commit") # {} /\ At("rollback") # {}
    /\ trace[Len(trace)].e = "cursor.close"

\* C23: alter_table sends the statement at each position of the batch at
\* most once, and sends nothing after the first statement that failed
C23_NoRetries ==
    op = "alter_table" =>
        LET ex == Executes(trace)
        IN  /\ Len(ex) <= Len(commands)
            /\ \A j \in 1..Len(ex) : ex[j].stmt = commands[j]
            /\ \A j \in 1..Len(ex) : ~ex[j].ok => j = Len(ex)
            /\ \A i \in At("execute"), j \in 1..Len(trace) :
                   (~trace[i].ok /\ i < j) => trace[j].e \in {"rollback", "cursor.close", "close"}

\* C23: the first statement of a batch of two failed and the invocation
\* ended having sent that one statement once
C23_Witness ==
    /\ op = "alter_table" /\ pc = "done" /\ outcome.kind = "raised"
    /\ Len(commands) = 2
    /\ Len(Executes(trace)) = 1 /\ ~Executes(trace)[1].ok

\* C24: while the statements of a batch are not built yet no connection
\* has been opened, and a batch whose build fails never has one
C24_ConnectAfterBuild ==
    (op = "alter_table" /\ (pc = "building" \/ BuildFails)) => conn.state = "none"

\* C27: every statement text build_select_sql produces has a table
\* reference after FROM: no text is produced for a SelectParams whose
\* tables list is empty
C27_TablesNonEmpty ==
    built # NotBuilt =>
        /\ params.tables # <<>>
        /\ \E i \in 1..(Len(built.text) - 1) :
               built.text[i] = Kw("FROM") /\ built.text[i + 1].k # "kw"

\* C28: once safe_execute has returned, the modification its statement
\* made is in the database, also when the statement has a result set, and
\* it is still there after the connection was closed
C28_ReturnedMeansCommitted ==
    (op = "safe_execute" /\ outcome.kind = "returned" /\ request.modifies) =>
        db = dbBefore \o <<Effect(request.stmt, request.args)>>

\* C26: each row execute_select returns has one entry for each output
\* column of the query, in output-column order, also when two output
\* columns have the same name, and the rows stand in the order the backend
\* produced them
C26_RowsKeepEveryColumn ==
    (op = "execute_select" /\ pc = "returned") =>
        LET rs == ResultSet(db, request)
            rows == outcome.value
        IN  /\ Len(rows) = Len(rs)
            /\ \A i \in 1..Len(rs) :
                   /\ Len(rows[i]) = Len(rs[i])
                   /\ \A j \in 1..Len(rs[i]) :
                          /\ rows[i][j].name = rs[i][j].name
                          /\ rows[i][j].value = rs[i][j].value

(***************************************************************************)
(* Properties of alter_table with a reader (specification SpecConcurrent)  *)
(***************************************************************************)
\* the effects of the whole batch
BatchEffects == [i \in 1..Len(commands) |-> Effect(commands[i], <<>>)]

\* what the reader's query returns without and with the whole batch
SeenWithout == Introspect(observed.o, dbBefore, observed.table)
SeenWith == Introspect(observed.o, dbBefore \o BatchEffects, observed.table)

\* C29: what another session reads on its own connection while an
\* alter_table batch is under way is the schema with none or with all of
\* the batch's changes, and with none of them once the batch was rolled back
C29_NoPartialBatch ==
    (op = "alter_table" /\ observed # NoObservation) =>
        /\ observed.value = SeenWithout \/ observed.value = SeenWith
        /\ (\E i \in 1..observed.at : trace[i].e = "rollback") =>
               observed.value = SeenWithout

\* C29: the reader read the columns after the first of two statements that
\* both change them was executed, and the batch went on
C29_Witness ==
    /\ op = "alter_table" /\ pc = "executing" /\ cursor = 2 /\ Len(commands) = 2
    /\ observed.o = "get_columns" /\ observed.at = 1
    /\ conn.pending # <<>>
    /\ Introspect("get_columns", dbBefore \o conn.pending, "t") # SeenWithout
    /\ Introspect("get_columns", dbBefore \o conn.pending, "t") # SeenWith

(***************************************************************************)
(* Properties of the select form (specification SpecCollect)               *)
(***************************************************************************)
\* C30: the limit and the offset of the form reach build_select_sql as
\* they were chosen, 0 included, and the statement built has a LIMIT and
\* an OFFSET clause bound to them
C30_LimitAndOffsetUnchanged ==
    (op = "collect_params" /\ pc = "done") =>
        /\ params.limit = PyInt(request.limit_spin)
        /\ params.offset = PyInt(request.offset_spin)
        /\ SubSeq(built.text, Len(built.text) - 3, Len(built.text)) =
               <<Kw("LIMIT"), Ph, Kw("OFFSET"), Ph>>
        /\ built.args = <<PyInt(request.limit_spin), PyInt(request.offset_spin)>>

(***************************************************************************)
(* Properties of the translator (specification SpecTranslate)              *)
(***************************************************************************)
\* C25: the translation of a raw message carries exactly one category of
\* the fixed set; a message that contains "invalid input syntax" gets the
\* category invalid-input-format, and a message that matches no key is
\* classified too (unknown): its translation is more than the raw message
C25_ExactlyOneCategory ==
    (op = "humanize_pg_error" /\ pc = "done") =>
        LET out == outcome.value
            cats == {i \in 1..Len(out) : out[i] \in Categories}
        IN  /\ Matching(request) # {} => Cardinality(cats) = 1
            /\ Contains(LowerMsg(request), <<"invalid", "input", "syntax">>) =>
                   out[1] = "Invalid data format for the type."
            /\ Matching(request) = {} => out # request

====
